---- MODULE Spec2Model ----
(***************************************************************************)
(* A model of cloudmarker's pipeline execution core: the three worker      *)
(* functions of cloudmarker/workers.py (cloud_worker, store_worker,        *)
(* check_worker), the queues between them, and the AzWebAppTLSEvent check  *)
(* plugin of cloudmarker/events/azwebapptlsevent.py.                       *)
(***************************************************************************)
EXTENDS Integers, Sequences, FiniteSets, TLC

VARIABLES
    target,               \* [Workers -> worker function run by the process, or "unused"]
    plugin,               \* [Workers -> class of the plugin object the worker wraps]
    input_queue,          \* [Workers -> queue the worker reads, NoQueue for cloud_worker]
    output_queues,        \* [Workers -> sequence of queues the worker writes]
    self_min_tls_version, \* AzWebAppTLSEvent._min_tls_version
    cloud_data,           \* the records a cloud plugin's read() can yield
    queue,                \* [Queues -> sequence of entries put so far, oldest first]
    nread,                \* [Queues -> number of entries already taken by get()]
    pc,                   \* [Workers -> position in the worker function]
    record,               \* [Workers -> local variable `record`]
    event_record,         \* [Workers -> local variable `event_record` of check_worker]
    qi,                   \* [Workers -> position of the loop `for q in output_queues`]
    gen,                  \* [Workers -> events the running eval() generator has yielded]
    yielded,              \* [Workers -> items read()/eval() yielded, in order]
    evaluated,            \* [Workers -> records passed to eval(), in order]
    written,              \* [Workers -> records passed to write(), in order]
    done_calls,           \* [Workers -> number of calls of plugin.done()]
    raised,               \* [Workers -> plugin method whose exception ended the worker]
    log                   \* set of <<worker_name, message>> emitted by _logger.info

vars == <<target, plugin, input_queue, output_queues, self_min_tls_version,
          cloud_data, queue, nread, pc, record, event_record, qi, gen, yielded, evaluated,
          written, done_calls, raised, log>>

wiring == <<target, plugin, input_queue, output_queues, self_min_tls_version,
            cloud_data>>

-----------------------------------------------------------------------------
(* Bounds of the model.                                                    *)

\* Most records one read() sequence yields.
MaxRead == 2
\* Most events one eval() call of a generic check plugin yields.
MaxYield == 2
\* Most Sentinels an undisciplined orchestrator pushes into one queue.
MaxSentinels == 2

-----------------------------------------------------------------------------
(* Python values.  A dict is a function from its keys; None, str and float *)
(* are tagged records, so that any two values can be compared.             *)

None == [type |-> "NoneType"]
Str(s) == [type |-> "str", val |-> s]
\* A str whose characters matter (it is parsed): a sequence of characters.
Chars(cs) == [type |-> "str", chars |-> cs]
\* A float num/den, den a power of ten.
Float(n, d) == [type |-> "float", num |-> n, den |-> d]
EmptyDict == [k \in {} |-> None]

IsNone(v) == v = None

\* dict.get(key): the value, None when the key is absent.
Get(d, k) == IF k \in DOMAIN d THEN d[k] ELSE None

\* a < b on floats.
FloatLess(a, b) == a.num * b.den < b.num * a.den

Digit == [c \in {"0", "1", "2", "3", "4", "5", "6", "7", "8", "9"} |->
            CASE c = "0" -> 0 [] c = "1" -> 1 [] c = "2" -> 2 [] c = "3" -> 3
              [] c = "4" -> 4 [] c = "5" -> 5 [] c = "6" -> 6 [] c = "7" -> 7
              [] c = "8" -> 8 [] c = "9" -> 9]

RECURSIVE StripLeft(_)
StripLeft(cs) == IF cs # <<>> /\ Head(cs) = " " THEN StripLeft(Tail(cs)) ELSE cs

RECURSIVE StripRight(_)
StripRight(cs) ==
    IF cs # <<>> /\ cs[Len(cs)] = " " THEN StripRight(SubSeq(cs, 1, Len(cs) - 1)) ELSE cs

\* The digits and at most one point of an unsigned decimal literal, read left
\* to right: [ok, num, den, digits, point].
RECURSIVE ScanDecimal(_, _)
ScanDecimal(cs, acc) ==
    IF cs = <<>> THEN acc
    ELSE LET c == Head(cs) IN
         IF c \in DOMAIN Digit
         THEN ScanDecimal(Tail(cs),
                  [acc EXCEPT !.num = 10 * @ + Digit[c],
                              !.den = IF acc.point THEN 10 * @ ELSE @,
                              !.digits = @ + 1])
         ELSE IF c = "." /\ ~acc.point
         THEN ScanDecimal(Tail(cs), [acc EXCEPT !.point = TRUE])
         ELSE [acc EXCEPT !.ok = FALSE]

\* float(x) of the builtins, for x None, a float, or a str holding a decimal
\* literal without exponent: [error, value].  A str is stripped of blanks,
\* may carry a sign, and needs a digit; anything else is a ValueError.  None
\* is a TypeError.
PyFloat(x) ==
    IF x.type = "float" THEN [error |-> "none", value |-> x]
    ELSE IF x.type # "str" THEN [error |-> "TypeError", value |-> None]
    ELSE LET s == StripRight(StripLeft(x.chars))
             signed == s # <<>> /\ Head(s) \in {"+", "-"}
             body == IF signed THEN Tail(s) ELSE s
             scan == ScanDecimal(body, [ok |-> TRUE, num |-> 0, den |-> 1,
                                        digits |-> 0, point |-> FALSE])
         IN  IF scan.ok /\ scan.digits > 0
             THEN [error |-> "none",
                   value |-> Float(IF signed /\ Head(s) = "-" THEN 0 - scan.num
                                   ELSE scan.num, scan.den)]
             ELSE [error |-> "ValueError", value |-> None]

RECURSIVE NatChars(_)
NatChars(n) ==
    LET d == CHOOSE c \in DOMAIN Digit : Digit[c] = n % 10
    IN  IF n < 10 THEN <<d>> ELSE Append(NatChars(n \div 10), d)

\* The digits of r/den after the point, den a power of ten above 1.
RECURSIVE FracChars(_, _)
FracChars(r, den) ==
    IF den = 10 THEN NatChars(r) ELSE NatChars(r \div (den \div 10)) \o FracChars(r % (den \div 10), den \div 10)

\* str(x) of a non-negative float: "1.2" for 1.2, "1.0" for 1.
PyStr(x) ==
    Chars(NatChars(x.num \div x.den) \o <<".">> \o
          (IF x.den = 1 THEN <<"0">> ELSE FracChars(x.num % x.den, x.den)))

\* str.format(*args): the template with its arguments.
Format(template, args) == [type |-> "str", format |-> template, args |-> args]

-----------------------------------------------------------------------------
(* cloudmarker.util, as far as the check plugin uses it.                   *)

\* util.friendly_string(s): the display form of a technical name.
friendly_string(s) == [type |-> "str", friendly |-> s]

\* util.merge_dicts(a, b): a new mapping with the keys of a, then the keys of
\* b over them; `first` is the mapping a as the call leaves it (untouched).
merge_dicts(a, b) ==
    [value |-> [k \in DOMAIN a \cup DOMAIN b |-> IF k \in DOMAIN b THEN b[k] ELSE a[k]],
     first |-> a]

-----------------------------------------------------------------------------
(* AzWebAppTLSEvent.  A call's result is [events, error, ...]: the events  *)
(* the generator yields, then the exception it raises ("none": it returns),*)
(* and the argument mapping as the call leaves it.                         *)

\* The default of the constructor's _min_tls_version.
DefaultMinTlsVersion == Float(12, 10)

\* Mutant: the override is written into the source ext mapping itself, which
\* is then used as the event's ext bucket.
Mutant_get_event_in_place(com, ext, min_tls_version) ==
    IF IsNone(com)
    THEN [events |-> <<>>, error |-> "AttributeError", ext |-> ext]
    ELSE LET updated == [ext EXCEPT !["record_type"] = Str("web_app_tls_event")]
         IN  [events |-> <<[ext |-> updated,
                            com |-> [cloud_type |-> Get(com, "cloud_type"),
                                     record_type |-> Str("web_app_tls_event"),
                                     reference |-> Get(com, "reference")]]>>,
              error |-> "none", ext |-> updated]

_get_azure_web_app_tls_event(com, ext, min_tls_version) ==
    IF IsNone(com)
    THEN [events |-> <<>>, error |-> "AttributeError", ext |-> ext]
    ELSE LET friendly_cloud_type == friendly_string(Get(com, "cloud_type"))
             reference == Get(com, "reference")
             description ==
                 Format("{} web app {} has insecure minimum TLS version.",
                        <<friendly_cloud_type, reference>>)
             recommendation ==
                 Format("Check {} web app {} and ensure the minimum TLS version is set to {}.",
                        <<friendly_cloud_type, reference, PyStr(min_tls_version)>>)
             merged == merge_dicts(ext, [record_type |-> Str("web_app_tls_event")])
             new_record ==
                 [ext |-> merged.value,
                  com |-> [cloud_type |-> Get(com, "cloud_type"),
                           record_type |-> Str("web_app_tls_event"),
                           reference |-> reference,
                           description |-> description,
                           recommendation |-> recommendation]]
         IN  [events |-> <<new_record>>, error |-> "none", ext |-> merged.first]

\* Mutant: the test of ext.record_type is missing.
Mutant_eval_no_type_filter(min_tls, rec) ==
    LET com == Get(rec, "com")
        ext == Get(rec, "ext")
        nothing == [events |-> <<>>, error |-> "none", record |-> rec]
    IN  IF IsNone(ext) THEN nothing
        ELSE LET min_tls_version == PyFloat(Get(ext, "min_tls_version"))
             IN  IF min_tls_version.error # "none"
                 THEN [events |-> <<>>, error |-> min_tls_version.error, record |-> rec]
                 ELSE IF FloatLess(min_tls_version.value, min_tls)
                 THEN LET r == _get_azure_web_app_tls_event(com, ext, min_tls)
                      IN  [events |-> r.events, error |-> r.error,
                           record |-> [rec EXCEPT !["ext"] = r.ext]]
                 ELSE nothing

\* Mutant: a version that is no number is skipped instead of raising.
Mutant_eval_skips_unparsable(min_tls, rec) ==
    LET com == Get(rec, "com")
        ext == Get(rec, "ext")
        nothing == [events |-> <<>>, error |-> "none", record |-> rec]
    IN  IF IsNone(ext) THEN nothing
        ELSE IF Get(ext, "record_type") # Str("web_app_config") THEN nothing
        ELSE LET min_tls_version == PyFloat(Get(ext, "min_tls_version"))
             IN  IF min_tls_version.error # "none" THEN nothing
                 ELSE IF FloatLess(min_tls_version.value, min_tls)
                 THEN LET r == _get_azure_web_app_tls_event(com, ext, min_tls)
                      IN  [events |-> r.events, error |-> r.error,
                           record |-> [rec EXCEPT !["ext"] = r.ext]]
                 ELSE nothing

\* Mutant: the comparison with the threshold is not strict.
Mutant_eval_not_strict(min_tls, rec) ==
    LET com == Get(rec, "com")
        ext == Get(rec, "ext")
        nothing == [events |-> <<>>, error |-> "none", record |-> rec]
    IN  IF IsNone(ext) THEN nothing
        ELSE IF Get(ext, "record_type") # Str("web_app_config") THEN nothing
        ELSE LET min_tls_version == PyFloat(Get(ext, "min_tls_version"))
             IN  IF min_tls_version.error # "none"
                 THEN [events |-> <<>>, error |-> min_tls_version.error, record |-> rec]
                 ELSE IF ~FloatLess(min_tls, min_tls_version.value)
                 THEN LET r == _get_azure_web_app_tls_event(com, ext, min_tls)
                      IN  [events |-> r.events, error |-> r.error,
                           record |-> [rec EXCEPT !["ext"] = r.ext]]
                 ELSE nothing

\* Mutant: the com bucket defaults to an empty mapping
\* (`com = record.get('com', {})`).
Mutant_eval_com_default(min_tls, rec) ==
    LET com == IF "com" \in DOMAIN rec THEN rec["com"] ELSE EmptyDict
        ext == Get(rec, "ext")
        nothing == [events |-> <<>>, error |-> "none", record |-> rec]
    IN  IF IsNone(ext) THEN nothing
        ELSE IF Get(ext, "record_type") # Str("web_app_config") THEN nothing
        ELSE LET min_tls_version == PyFloat(Get(ext, "min_tls_version"))
             IN  IF min_tls_version.error # "none"
                 THEN [events |-> <<>>, error |-> min_tls_version.error, record |-> rec]
                 ELSE IF FloatLess(min_tls_version.value, min_tls)
                 THEN LET r == _get_azure_web_app_tls_event(com, ext, min_tls)
                      IN  [events |-> r.events, error |-> r.error,
                           record |-> [rec EXCEPT !["ext"] = r.ext]]
                 ELSE nothing

\* AzWebAppTLSEvent.eval(record) with threshold min_tls.
eval(min_tls, rec) ==
    LET com == Get(rec, "com")
        ext == Get(rec, "ext")
        nothing == [events |-> <<>>, error |-> "none", record |-> rec]
    IN  IF IsNone(ext) THEN nothing
        ELSE IF Get(ext, "record_type") # Str("web_app_config") THEN nothing
        ELSE LET min_tls_version == PyFloat(Get(ext, "min_tls_version"))
             IN  IF min_tls_version.error # "none"
                 THEN [events |-> <<>>, error |-> min_tls_version.error, record |-> rec]
                 ELSE IF FloatLess(min_tls_version.value, min_tls)
                 THEN LET r == _get_azure_web_app_tls_event(com, ext, min_tls)
                      IN  [events |-> r.events, error |-> r.error,
                           record |-> [rec EXCEPT !["ext"] = r.ext]]
                 ELSE nothing

\* AzWebAppTLSEvent.done() does nothing: it cannot raise.
TlsDoneMayRaise == FALSE

-----------------------------------------------------------------------------
(* Records.                                                                *)

\* The dict with the given set of <<key, value>> items.
Dict(items) == [k \in {p[1] : p \in items} |-> (CHOOSE p \in items : p[1] = k)[2]]

Absent == [type |-> "absent"]
\* A dict of the items whose value is given (not Absent).
DictOf(items) == Dict({p \in items : p[2] # Absent})

ComApp(ref) == [cloud_type |-> Str("azure"), reference |-> Str(ref)]
WebApp(ref, version) ==
    [com |-> ComApp(ref),
     ext |-> [record_type |-> Str("web_app_config"), min_tls_version |-> Chars(version),
              name |-> Str(ref)]]

\* The records of the end-to-end scenario.
RecApp1 == [com |-> [cloud_type |-> Str("azure"), reference |-> Str("app1")],
            ext |-> [record_type |-> Str("web_app_config"),
                     min_tls_version |-> Chars(<<"1", ".", "0">>)]]
RecOther == [ext |-> [record_type |-> Str("other")]]
\* A web app below the threshold, one at it, one whose version is no number,
\* and one below the threshold without a com bucket.
RecApp2 == WebApp("app2", <<"1", ".", "1">>)
RecAtThreshold == WebApp("app3", <<"1", ".", "2">>)
RecNotNumeric == WebApp("app4", <<"a", "b", "c">>)
RecNoCom == [ext |-> [record_type |-> Str("web_app_config"),
                      min_tls_version |-> Chars(<<"1", ".", "1">>)]]

\* What a cloud plugin's read() may yield in the end-to-end specification.
Records == {RecApp1, RecOther, RecApp2, RecAtThreshold, RecNotNumeric}

\* The values of min_tls_version the eval specification draws from.
Versions ==
    {Chars(<<"1", ".", "0">>), Chars(<<"1", ".", "1">>), Chars(<<"1", ".", "2">>),
     Chars(<<"1", ".", "3">>), Chars(<<"1", ".", "1", "9">>), Chars(<<"1", ".", "2", "1">>),
     Chars(<<"2">>), Chars(<<" ", "1", ".", "1">>), Chars(<<"1", ".">>),
     Chars(<<"a", "b", "c">>), Chars(<<>>), Chars(<<"1", ".", "1", ".", "1">>),
     Chars(<<".">>), Float(11, 10), Float(12, 10), Absent}

RecordTypes == {Str("web_app_config"), Str("storage_account_config"), Str("other"), Absent}

Exts ==
    {Absent} \cup
    {DictOf({<<"record_type", rt>>, <<"min_tls_version", v>>, <<"name", n>>}) :
        rt \in RecordTypes, v \in Versions, n \in {Str("app1"), Absent}}

Coms == {Absent, EmptyDict, ComApp("app1")}

\* The records the eval specification draws from.
EvalRecords == {DictOf({<<"com", c>>, <<"ext", e>>}) : c \in Coms, e \in Exts}

\* The thresholds the eval specification draws from.
Thresholds == {DefaultMinTlsVersion, Float(11, 10), Float(13, 10)}

-----------------------------------------------------------------------------
(* Workers and queues.                                                     *)

Workers == {"cloud1", "cloud2", "check1", "store1", "store2"}
Queues == {"q1", "q2", "q3", "q4"}
NoQueue == "none"
Orchestrator == "orchestrator"

\* A local variable not yet assigned.
Unset == [type |-> "unset"]

\* The k-th event the eval() of a generic check plugin yields for a record.
GenericEvent(rec, k) ==
    [ext |-> [record_type |-> Str("generic_event"), source |-> rec, index |-> k]]

\* The k-th item the eval() of an untyped check plugin yields for a record:
\* nothing constrains what a plugin's generator yields, so an empty record
\* first, then None, then events.
UntypedEvent(rec, k) ==
    IF k = 1 THEN EmptyDict ELSE IF k = 2 THEN None ELSE GenericEvent(rec, k)

Terminated(w) == pc[w] \in {"stopped", "crashed"}

\* The workers with q among their output queues.
Writers(q) ==
    {w \in Workers : target[w] # "unused" /\
                     \E i \in 1..Len(output_queues[w]) : output_queues[w][i] = q}

\* The items entries hold, in order.
Items(entries) == [i \in 1..Len(entries) |-> entries[i].item]
\* The items worker w has put on q, in order.
PutBy(w, q) == Items(SelectSeq(queue[q], LAMBDA e : e.by = w))
\* The entries of q no get() has taken yet.
Unread(q) == SubSeq(queue[q], nread[q] + 1, Len(queue[q]))

\* q.put(item) by worker w.
Put(w, q, item) == queue' = [queue EXCEPT ![q] = Append(@, [by |-> w, item |-> item])]

\* Mutant: the test is `not record`, which an empty record passes too.
Mutant_IsSentinel_falsy(item) == item = None \/ item = EmptyDict

\* `record is None`: the item is the Sentinel.
IsSentinel(item) == item = None

\* _logger.info('%s: <message>', worker_name)
Info(w, message) == log' = log \cup {<<w, message>>}

\* An exception leaves the worker function: the process ends.
Crash(w, method) ==
    /\ pc' = [pc EXCEPT ![w] = "crashed"]
    /\ raised' = [raised EXCEPT ![w] = method]

\* Whether done() of worker w's plugin can raise.
DoneOutcomes(w) == IF plugin[w] = "AzWebAppTLSEvent" THEN {TlsDoneMayRaise} ELSE BOOLEAN

\* Mutant: an exception of done() is caught and the worker goes on.
Mutant_CallDone_swallows(w, next) ==
    /\ done_calls' = [done_calls EXCEPT ![w] = @ + 1]
    /\ pc' = [pc EXCEPT ![w] = next]
    /\ \E raises \in DoneOutcomes(w) :
          raised' = [raised EXCEPT ![w] = IF raises THEN "done" ELSE @]

\* plugin.done(), then the statement after it.
CallDone(w, next) ==
    /\ done_calls' = [done_calls EXCEPT ![w] = @ + 1]
    /\ \E raises \in DoneOutcomes(w) :
          IF raises THEN Crash(w, "done")
          ELSE pc' = [pc EXCEPT ![w] = next] /\ UNCHANGED raised

-----------------------------------------------------------------------------
(* cloud_worker(worker_name, cloud_plugin, output_queues)                  *)

CloudStart(w) ==
    /\ target[w] = "cloud_worker"
    /\ pc[w] = "start"
    /\ Info(w, "Started")
    /\ pc' = [pc EXCEPT ![w] = "read"]
    /\ UNCHANGED <<wiring, queue, nread, record, event_record, qi, gen, yielded,
                   evaluated, written, done_calls, raised>>

\* read() yields a record; the loop over output_queues starts.
CloudReadYield(w) ==
    /\ target[w] = "cloud_worker"
    /\ pc[w] = "read"
    /\ Len(yielded[w]) < MaxRead
    /\ \E r \in cloud_data :
          /\ record' = [record EXCEPT ![w] = r]
          /\ yielded' = [yielded EXCEPT ![w] = Append(@, r)]
    /\ qi' = [qi EXCEPT ![w] = 1]
    /\ pc' = [pc EXCEPT ![w] = IF output_queues[w] = <<>> THEN "read" ELSE "put"]
    /\ UNCHANGED <<wiring, queue, nread, event_record, gen, evaluated, written,
                   done_calls, raised, log>>

\* read() is exhausted.
CloudReadExhausted(w) ==
    /\ target[w] = "cloud_worker"
    /\ pc[w] = "read"
    /\ pc' = [pc EXCEPT ![w] = "done"]
    /\ UNCHANGED <<wiring, queue, nread, record, event_record, qi, gen, yielded,
                   evaluated, written, done_calls, raised, log>>

\* read() raises.
CloudReadRaise(w) ==
    /\ target[w] = "cloud_worker"
    /\ pc[w] = "read"
    /\ Crash(w, "read")
    /\ UNCHANGED <<wiring, queue, nread, record, event_record, qi, gen, yielded,
                   evaluated, written, done_calls, log>>

\* Mutant: the queues are bounded (Queue(maxsize=1)): a put blocks while the
\* queue holds an item not yet taken.
Mutant_CloudPut_bounded(w) ==
    /\ target[w] = "cloud_worker"
    /\ pc[w] = "put"
    /\ Unread(output_queues[w][qi[w]]) = <<>>
    /\ Put(w, output_queues[w][qi[w]], record[w])
    /\ qi' = [qi EXCEPT ![w] = @ + 1]
    /\ pc' = [pc EXCEPT ![w] = IF qi[w] = Len(output_queues[w]) THEN "read" ELSE "put"]
    /\ UNCHANGED <<wiring, nread, record, event_record, gen, yielded, evaluated,
                   written, done_calls, raised, log>>

\* Mutant: the loop runs over reversed(output_queues).
Mutant_CloudPut_reversed(w) ==
    /\ target[w] = "cloud_worker"
    /\ pc[w] = "put"
    /\ Put(w, output_queues[w][Len(output_queues[w]) + 1 - qi[w]], record[w])
    /\ qi' = [qi EXCEPT ![w] = @ + 1]
    /\ pc' = [pc EXCEPT ![w] = IF qi[w] = Len(output_queues[w]) THEN "read" ELSE "put"]
    /\ UNCHANGED <<wiring, nread, record, event_record, gen, yielded, evaluated,
                   written, done_calls, raised, log>>

\* q.put(record) for the next q of output_queues.
CloudPut(w) ==
    /\ target[w] = "cloud_worker"
    /\ pc[w] = "put"
    /\ Put(w, output_queues[w][qi[w]], record[w])
    /\ qi' = [qi EXCEPT ![w] = @ + 1]
    /\ pc' = [pc EXCEPT ![w] = IF qi[w] = Len(output_queues[w]) THEN "read" ELSE "put"]
    /\ UNCHANGED <<wiring, nread, record, event_record, gen, yielded, evaluated,
                   written, done_calls, raised, log>>

\* Mutant: done() is called inside the loop over read(), which then goes on.
Mutant_CloudDone_inside_loop(w) ==
    /\ target[w] = "cloud_worker"
    /\ pc[w] = "done"
    /\ CallDone(w, "read")
    /\ UNCHANGED <<wiring, queue, nread, record, event_record, qi, gen, yielded,
                   evaluated, written, log>>

\* Mutant: the worker ends the stream itself: after done() it puts None on
\* each of its output queues.
Mutant_CloudDone_pushes_sentinel(w) ==
    /\ target[w] = "cloud_worker"
    /\ pc[w] = "done"
    /\ CallDone(w, "stop")
    /\ queue' = [q \in Queues |->
                    IF \E i \in 1..Len(output_queues[w]) : output_queues[w][i] = q
                    THEN Append(queue[q], [by |-> w, item |-> None])
                    ELSE queue[q]]
    /\ UNCHANGED <<wiring, nread, record, event_record, qi, gen, yielded,
                   evaluated, written, log>>

CloudDone(w) ==
    /\ target[w] = "cloud_worker"
    /\ pc[w] = "done"
    /\ CallDone(w, "stop")
    /\ UNCHANGED <<wiring, queue, nread, record, event_record, qi, gen, yielded,
                   evaluated, written, log>>

CloudStop(w) ==
    /\ target[w] = "cloud_worker"
    /\ pc[w] = "stop"
    /\ Info(w, "Stopped")
    /\ pc' = [pc EXCEPT ![w] = "stopped"]
    /\ UNCHANGED <<wiring, queue, nread, record, event_record, qi, gen, yielded,
                   evaluated, written, done_calls, raised>>

cloud_worker(w) ==
    \/ CloudStart(w)
    \/ CloudReadYield(w)
    \/ CloudReadExhausted(w)
    \/ CloudReadRaise(w)
    \/ CloudPut(w)
    \/ CloudDone(w)
    \/ CloudStop(w)

-----------------------------------------------------------------------------
(* store_worker(worker_name, store_plugin, input_queue)                    *)

StoreStart(w) ==
    /\ target[w] = "store_worker"
    /\ pc[w] = "start"
    /\ Info(w, "Started")
    /\ pc' = [pc EXCEPT ![w] = "get"]
    /\ UNCHANGED <<wiring, queue, nread, record, event_record, qi, gen, yielded,
                   evaluated, written, done_calls, raised>>

\* Mutant: the loop tests one get() and passes on the next one:
\* `while input_queue.get() is not None: record = input_queue.get()`.
Mutant_StoreGet_double_get(w) ==
    /\ target[w] = "store_worker"
    /\ pc[w] = "get"
    /\ Unread(input_queue[w]) # <<>>
    /\ LET tested == Head(Unread(input_queue[w])).item
       IN  IF IsSentinel(tested)
           THEN /\ record' = [record EXCEPT ![w] = tested]
                /\ pc' = [pc EXCEPT ![w] = "done"]
                /\ nread' = [nread EXCEPT ![input_queue[w]] = @ + 1]
           ELSE /\ Len(Unread(input_queue[w])) >= 2
                /\ record' = [record EXCEPT ![w] = Unread(input_queue[w])[2].item]
                /\ pc' = [pc EXCEPT ![w] = "write"]
                /\ nread' = [nread EXCEPT ![input_queue[w]] = @ + 2]
    /\ UNCHANGED <<wiring, queue, event_record, qi, gen, yielded, evaluated, written,
                   done_calls, raised, log>>

\* Mutant: the get() has a timeout and an empty queue is taken as the end of
\* the stream (`except queue.Empty: record = None`).
Mutant_StoreGet_timeout(w) ==
    /\ target[w] = "store_worker"
    /\ pc[w] = "get"
    /\ IF Unread(input_queue[w]) = <<>>
       THEN /\ record' = [record EXCEPT ![w] = None]
            /\ pc' = [pc EXCEPT ![w] = "done"]
            /\ UNCHANGED nread
       ELSE LET item == Head(Unread(input_queue[w])).item
            IN  /\ record' = [record EXCEPT ![w] = item]
                /\ pc' = [pc EXCEPT ![w] = IF IsSentinel(item) THEN "done" ELSE "write"]
                /\ nread' = [nread EXCEPT ![input_queue[w]] = @ + 1]
    /\ UNCHANGED <<wiring, queue, event_record, qi, gen, yielded, evaluated, written,
                   done_calls, raised, log>>

\* record = input_queue.get(), which blocks while the queue is empty, and the
\* test `record is None`.
StoreGet(w) ==
    /\ target[w] = "store_worker"
    /\ pc[w] = "get"
    /\ Unread(input_queue[w]) # <<>>
    /\ LET item == Head(Unread(input_queue[w])).item
       IN  /\ record' = [record EXCEPT ![w] = item]
           /\ pc' = [pc EXCEPT ![w] = IF IsSentinel(item) THEN "done" ELSE "write"]
    /\ nread' = [nread EXCEPT ![input_queue[w]] = @ + 1]
    /\ UNCHANGED <<wiring, queue, event_record, qi, gen, yielded, evaluated, written,
                   done_calls, raised, log>>

\* store_plugin.write(record) returns.
StoreWriteReturn(w) ==
    /\ target[w] = "store_worker"
    /\ pc[w] = "write"
    /\ written' = [written EXCEPT ![w] = Append(@, record[w])]
    /\ pc' = [pc EXCEPT ![w] = "get"]
    /\ UNCHANGED <<wiring, queue, nread, record, event_record, qi, gen, yielded,
                   evaluated, done_calls, raised, log>>

\* store_plugin.write(record) raises.
StoreWriteRaise(w) ==
    /\ target[w] = "store_worker"
    /\ pc[w] = "write"
    /\ written' = [written EXCEPT ![w] = Append(@, record[w])]
    /\ Crash(w, "write")
    /\ UNCHANGED <<wiring, queue, nread, record, event_record, qi, gen, yielded,
                   evaluated, done_calls, log>>

\* Mutant: no break after done(): the loop goes back to the get().
Mutant_StoreDone_no_break(w) ==
    /\ target[w] = "store_worker"
    /\ pc[w] = "done"
    /\ CallDone(w, "get")
    /\ UNCHANGED <<wiring, queue, nread, record, event_record, qi, gen, yielded,
                   evaluated, written, log>>

StoreDone(w) ==
    /\ target[w] = "store_worker"
    /\ pc[w] = "done"
    /\ CallDone(w, "stop")
    /\ UNCHANGED <<wiring, queue, nread, record, event_record, qi, gen, yielded,
                   evaluated, written, log>>

StoreStop(w) ==
    /\ target[w] = "store_worker"
    /\ pc[w] = "stop"
    /\ Info(w, "Stopped")
    /\ pc' = [pc EXCEPT ![w] = "stopped"]
    /\ UNCHANGED <<wiring, queue, nread, record, event_record, qi, gen, yielded,
                   evaluated, written, done_calls, raised>>

store_worker(w) ==
    \/ StoreStart(w)
    \/ StoreGet(w)
    \/ StoreWriteReturn(w)
    \/ StoreWriteRaise(w)
    \/ StoreDone(w)
    \/ StoreStop(w)

-----------------------------------------------------------------------------
(* check_worker(worker_name, check_plugin, input_queue, output_queues)     *)

\* What resuming the generator check_plugin.eval(record) can do next, after
\* it has yielded gen[w] events: yield an event, return, or raise.  `record`
\* is the argument as the step leaves it.
EvalNext(w) ==
    IF plugin[w] = "AzWebAppTLSEvent"
    THEN LET r == eval(self_min_tls_version, record[w])
         IN  IF gen[w] < Len(r.events)
             THEN {[kind |-> "yield", event |-> r.events[gen[w] + 1], record |-> r.record]}
             ELSE IF r.error # "none" /\ gen[w] = Len(r.events)
             THEN {[kind |-> "raise", record |-> r.record]}
             ELSE {[kind |-> "return", record |-> record[w]]}
    ELSE {[kind |-> "yield",
           event |-> IF plugin[w] = "untyped" THEN UntypedEvent(record[w], k)
                     ELSE GenericEvent(record[w], k),
           record |-> record[w]] :
             k \in IF gen[w] < MaxYield THEN {gen[w] + 1} ELSE {}}
         \cup {[kind |-> "raise", record |-> record[w]],
               [kind |-> "return", record |-> record[w]]}

CheckStart(w) ==
    /\ target[w] = "check_worker"
    /\ pc[w] = "start"
    /\ Info(w, "Started")
    /\ pc' = [pc EXCEPT ![w] = "get"]
    /\ UNCHANGED <<wiring, queue, nread, record, event_record, qi, gen, yielded,
                   evaluated, written, done_calls, raised>>

\* Mutant: on reading the Sentinel the worker passes it on (`for q in
\* output_queues: q.put(None)`) before calling done().
Mutant_CheckGet_forwards_sentinel(w) ==
    /\ target[w] = "check_worker"
    /\ pc[w] = "get"
    /\ Unread(input_queue[w]) # <<>>
    /\ LET item == Head(Unread(input_queue[w])).item
       IN  /\ record' = [record EXCEPT ![w] = item]
           /\ pc' = [pc EXCEPT ![w] = IF IsSentinel(item) THEN "done" ELSE "eval"]
           /\ evaluated' = [evaluated EXCEPT ![w] =
                               IF IsSentinel(item) THEN @ ELSE Append(@, item)]
           /\ gen' = [gen EXCEPT ![w] = IF IsSentinel(item) THEN @ ELSE 0]
           /\ queue' = [q \in Queues |->
                           IF IsSentinel(item)
                              /\ \E i \in 1..Len(output_queues[w]) : output_queues[w][i] = q
                           THEN Append(queue[q], [by |-> w, item |-> None])
                           ELSE queue[q]]
    /\ nread' = [nread EXCEPT ![input_queue[w]] = @ + 1]
    /\ UNCHANGED <<wiring, event_record, qi, yielded, written, done_calls,
                   raised, log>>

\* record = input_queue.get(), which blocks while the queue is empty, the
\* test `record is None`, and the call check_plugin.eval(record), which only
\* makes the generator.
CheckGet(w) ==
    /\ target[w] = "check_worker"
    /\ pc[w] = "get"
    /\ Unread(input_queue[w]) # <<>>
    /\ LET item == Head(Unread(input_queue[w])).item
       IN  /\ record' = [record EXCEPT ![w] = item]
           /\ pc' = [pc EXCEPT ![w] = IF IsSentinel(item) THEN "done" ELSE "eval"]
           /\ evaluated' = [evaluated EXCEPT ![w] =
                               IF IsSentinel(item) THEN @ ELSE Append(@, item)]
           /\ gen' = [gen EXCEPT ![w] = IF IsSentinel(item) THEN @ ELSE 0]
    /\ nread' = [nread EXCEPT ![input_queue[w]] = @ + 1]
    /\ UNCHANGED <<wiring, queue, event_record, qi, yielded, written, done_calls,
                   raised, log>>

\* The generator yields event_record; the loop over output_queues starts.
CheckEvalYield(w) ==
    /\ target[w] = "check_worker"
    /\ pc[w] = "eval"
    /\ \E o \in EvalNext(w) :
          /\ o.kind = "yield"
          /\ event_record' = [event_record EXCEPT ![w] = o.event]
          /\ yielded' = [yielded EXCEPT ![w] = Append(@, o.event)]
          /\ record' = [record EXCEPT ![w] = o.record]
    /\ gen' = [gen EXCEPT ![w] = @ + 1]
    /\ qi' = [qi EXCEPT ![w] = 1]
    /\ pc' = [pc EXCEPT ![w] = IF output_queues[w] = <<>> THEN "eval" ELSE "put"]
    /\ UNCHANGED <<wiring, queue, nread, evaluated, written, done_calls, raised, log>>

\* The generator returns: back to the get().
CheckEvalReturn(w) ==
    /\ target[w] = "check_worker"
    /\ pc[w] = "eval"
    /\ \E o \in EvalNext(w) :
          /\ o.kind = "return"
          /\ record' = [record EXCEPT ![w] = o.record]
    /\ pc' = [pc EXCEPT ![w] = "get"]
    /\ UNCHANGED <<wiring, queue, nread, event_record, qi, gen, yielded, evaluated,
                   written, done_calls, raised, log>>

\* Mutant: the loop is in a try whose finally calls check_plugin.done().
Mutant_CheckEvalRaise_finally_done(w) ==
    /\ target[w] = "check_worker"
    /\ pc[w] = "eval"
    /\ \E o \in EvalNext(w) :
          /\ o.kind = "raise"
          /\ record' = [record EXCEPT ![w] = o.record]
    /\ Crash(w, "eval")
    /\ done_calls' = [done_calls EXCEPT ![w] = @ + 1]
    /\ UNCHANGED <<wiring, queue, nread, event_record, qi, gen, yielded, evaluated,
                   written, log>>

\* The generator raises.
CheckEvalRaise(w) ==
    /\ target[w] = "check_worker"
    /\ pc[w] = "eval"
    /\ \E o \in EvalNext(w) :
          /\ o.kind = "raise"
          /\ record' = [record EXCEPT ![w] = o.record]
    /\ Crash(w, "eval")
    /\ UNCHANGED <<wiring, queue, nread, event_record, qi, gen, yielded, evaluated,
                   written, done_calls, log>>

\* Mutant: the event is put on the first output queue only.
Mutant_CheckPut_first_queue_only(w) ==
    /\ target[w] = "check_worker"
    /\ pc[w] = "put"
    /\ Put(w, output_queues[w][qi[w]], event_record[w])
    /\ qi' = [qi EXCEPT ![w] = @ + 1]
    /\ pc' = [pc EXCEPT ![w] = "eval"]
    /\ UNCHANGED <<wiring, nread, record, event_record, gen, yielded, evaluated,
                   written, done_calls, raised, log>>

\* q.put(event_record) for the next q of output_queues.
CheckPut(w) ==
    /\ target[w] = "check_worker"
    /\ pc[w] = "put"
    /\ Put(w, output_queues[w][qi[w]], event_record[w])
    /\ qi' = [qi EXCEPT ![w] = @ + 1]
    /\ pc' = [pc EXCEPT ![w] = IF qi[w] = Len(output_queues[w]) THEN "eval" ELSE "put"]
    /\ UNCHANGED <<wiring, nread, record, event_record, gen, yielded, evaluated,
                   written, done_calls, raised, log>>

\* Mutant: no break after done(): the loop goes back to the get().
Mutant_CheckDone_no_break(w) ==
    /\ target[w] = "check_worker"
    /\ pc[w] = "done"
    /\ CallDone(w, "get")
    /\ UNCHANGED <<wiring, queue, nread, record, event_record, qi, gen, yielded,
                   evaluated, written, log>>

CheckDone(w) ==
    /\ target[w] = "check_worker"
    /\ pc[w] = "done"
    /\ CallDone(w, "stop")
    /\ UNCHANGED <<wiring, queue, nread, record, event_record, qi, gen, yielded,
                   evaluated, written, log>>

CheckStop(w) ==
    /\ target[w] = "check_worker"
    /\ pc[w] = "stop"
    /\ Info(w, "Stopped")
    /\ pc' = [pc EXCEPT ![w] = "stopped"]
    /\ UNCHANGED <<wiring, queue, nread, record, event_record, qi, gen, yielded,
                   evaluated, written, done_calls, raised>>

check_worker(w) ==
    \/ CheckStart(w)
    \/ CheckGet(w)
    \/ CheckEvalYield(w)
    \/ CheckEvalReturn(w)
    \/ CheckEvalRaise(w)
    \/ CheckPut(w)
    \/ CheckDone(w)
    \/ CheckStop(w)

-----------------------------------------------------------------------------
(* The orchestrator, which starts the workers and ends the streams.        *)

\* The queues some worker reads.
InputQueues == {input_queue[w] : w \in {v \in Workers : target[v] # "unused"}} \ {NoQueue}

\* The Sentinels pushed into q so far.
Sentinels(q) == Len(SelectSeq(queue[q], LAMBDA e : e.by = Orchestrator))

\* One Sentinel into a queue, once every worker writing it has terminated.
PushSentinel(q) ==
    /\ q \in InputQueues
    /\ \A w \in Writers(q) : Terminated(w)
    /\ Sentinels(q) = 0
    /\ Put(Orchestrator, q, None)
    /\ UNCHANGED <<wiring, nread, pc, record, event_record, qi, gen, yielded,
                   evaluated, written, done_calls, raised, log>>

\* An orchestrator without the discipline: a Sentinel into a queue at any
\* time, and more than once.
PushSentinelAnyTime(q) ==
    /\ q \in InputQueues
    /\ Sentinels(q) < MaxSentinels
    /\ Put(Orchestrator, q, None)
    /\ UNCHANGED <<wiring, nread, pc, record, event_record, qi, gen, yielded,
                   evaluated, written, done_calls, raised, log>>

-----------------------------------------------------------------------------
(* Topologies and specifications.                                          *)

\* The state when the orchestrator has made the queues and the workers, with
\* the given wiring; `started` are the workers whose process exists.
Constructed(tg, pl, inq, outq) ==
    /\ target = tg
    /\ plugin = pl
    /\ input_queue = inq
    /\ output_queues = outq
    /\ queue = [q \in Queues |-> <<>>]
    /\ nread = [q \in Queues |-> 0]
    /\ pc = [w \in Workers |-> IF tg[w] = "unused" THEN "unused" ELSE "start"]
    /\ record = [w \in Workers |-> Unset]
    /\ event_record = [w \in Workers |-> Unset]
    /\ qi = [w \in Workers |-> 0]
    /\ gen = [w \in Workers |-> 0]
    /\ yielded = [w \in Workers |-> <<>>]
    /\ evaluated = [w \in Workers |-> <<>>]
    /\ written = [w \in Workers |-> <<>>]
    /\ done_calls = [w \in Workers |-> 0]
    /\ raised = [w \in Workers |-> "none"]
    /\ log = {}

Unused == [w \in Workers |-> "unused"]
NoInput == [w \in Workers |-> NoQueue]
NoOutput == [w \in Workers |-> <<>>]

\* A cloud feeding a check and a second queue, the check feeding two queues
\* of which one has a store behind it.
FanTarget ==
    [Unused EXCEPT !["cloud1"] = "cloud_worker", !["check1"] = "check_worker",
                   !["store1"] = "store_worker"]
FanPlugin(check) ==
    [Unused EXCEPT !["cloud1"] = "cloud", !["check1"] = check, !["store1"] = "store"]
FanInput == [NoInput EXCEPT !["check1"] = "q1", !["store1"] = "q3"]
FanOutput == [NoOutput EXCEPT !["cloud1"] = <<"q1", "q2">>, !["check1"] = <<"q3", "q4">>]

Init ==
    /\ self_min_tls_version = DefaultMinTlsVersion
    /\ cloud_data = {RecApp1, RecOther}
    /\ Constructed(FanTarget, FanPlugin("generic"), FanInput, FanOutput)

Next ==
    \/ \E w \in Workers : cloud_worker(w)
    \/ \E w \in Workers : store_worker(w)
    \/ \E w \in Workers : check_worker(w)
    \/ \E q \in Queues : PushSentinel(q)

Spec == Init /\ [][Next]_vars

\* Scheduling: every worker is a process of its own, which takes its next
\* step whenever it has one (a get() on an empty queue is no step); the
\* orchestrator pushes the Sentinel of a queue once it may.
Fairness ==
    /\ \A w \in Workers : WF_vars(cloud_worker(w))
    /\ \A w \in Workers : WF_vars(store_worker(w))
    /\ \A w \in Workers : WF_vars(check_worker(w))
    /\ \A q \in Queues : WF_vars(PushSentinel(q))

\* A cloud feeding a check and a second queue, the check feeding a store.
FairTarget ==
    [Unused EXCEPT !["cloud1"] = "cloud_worker", !["check1"] = "check_worker",
                   !["store1"] = "store_worker"]
FairPlugin ==
    [Unused EXCEPT !["cloud1"] = "cloud", !["check1"] = "generic", !["store1"] = "store"]
FairInput == [NoInput EXCEPT !["check1"] = "q1", !["store1"] = "q3"]
FairOutput == [NoOutput EXCEPT !["cloud1"] = <<"q1", "q2">>, !["check1"] = <<"q3">>]

InitFair ==
    /\ self_min_tls_version = DefaultMinTlsVersion
    /\ cloud_data = {RecOther}
    /\ Constructed(FairTarget, FairPlugin, FairInput, FairOutput)

SpecFair == InitFair /\ [][Next]_vars /\ Fairness

\* The end-to-end scenario's topology: a cloud, a queue, the TLS check, a
\* queue, a store.
PipelineTarget ==
    [Unused EXCEPT !["cloud1"] = "cloud_worker", !["check1"] = "check_worker",
                   !["store1"] = "store_worker"]
PipelinePlugin(check) ==
    [Unused EXCEPT !["cloud1"] = "cloud", !["check1"] = check, !["store1"] = "store"]
PipelineInput == [NoInput EXCEPT !["check1"] = "q1", !["store1"] = "q2"]
PipelineOutput == [NoOutput EXCEPT !["cloud1"] = <<"q1">>, !["check1"] = <<"q2">>]

InitPipeline ==
    /\ self_min_tls_version = DefaultMinTlsVersion
    /\ cloud_data = Records
    /\ Constructed(PipelineTarget, PipelinePlugin("AzWebAppTLSEvent"),
                   PipelineInput, PipelineOutput)

SpecPipeline == InitPipeline /\ [][Next]_vars

\* A cloud feeding one reader, a store or a generic check, under an
\* orchestrator that pushes Sentinels without waiting for the writer.
LooseStore ==
    Constructed([Unused EXCEPT !["cloud1"] = "cloud_worker", !["store1"] = "store_worker"],
                [Unused EXCEPT !["cloud1"] = "cloud", !["store1"] = "store"],
                [NoInput EXCEPT !["store1"] = "q1"],
                [NoOutput EXCEPT !["cloud1"] = <<"q1">>])
LooseCheck ==
    Constructed([Unused EXCEPT !["cloud1"] = "cloud_worker", !["check1"] = "check_worker"],
                [Unused EXCEPT !["cloud1"] = "cloud", !["check1"] = "generic"],
                [NoInput EXCEPT !["check1"] = "q1"],
                [NoOutput EXCEPT !["cloud1"] = <<"q1">>, !["check1"] = <<"q2">>])

InitLoose ==
    /\ self_min_tls_version = DefaultMinTlsVersion
    /\ cloud_data = {RecApp1, RecOther}
    /\ (LooseStore \/ LooseCheck)

NextLoose ==
    \/ \E w \in Workers : cloud_worker(w)
    \/ \E w \in Workers : store_worker(w)
    \/ \E w \in Workers : check_worker(w)
    \/ \E q \in Queues : PushSentinelAnyTime(q)

SpecLoose == InitLoose /\ [][NextLoose]_vars

\* The TLS check alone, behind a cloud worker that has put one record, any
\* of EvalRecords, on the check's input queue and stopped.
InitEval ==
    /\ self_min_tls_version \in Thresholds
    /\ target = [Unused EXCEPT !["cloud1"] = "cloud_worker", !["check1"] = "check_worker"]
    /\ plugin = [Unused EXCEPT !["cloud1"] = "cloud", !["check1"] = "AzWebAppTLSEvent"]
    /\ input_queue = [NoInput EXCEPT !["check1"] = "q1"]
    /\ output_queues = [NoOutput EXCEPT !["cloud1"] = <<"q1">>, !["check1"] = <<"q2", "q3">>]
    /\ \E r \in EvalRecords :
          /\ cloud_data = {r}
          /\ queue = [q \in Queues |-> IF q = "q1" THEN <<[by |-> "cloud1", item |-> r]>>
                                       ELSE <<>>]
          /\ record = [w \in Workers |-> IF w = "cloud1" THEN r ELSE Unset]
          /\ yielded = [w \in Workers |-> IF w = "cloud1" THEN <<r>> ELSE <<>>]
    /\ nread = [q \in Queues |-> 0]
    /\ pc = [w \in Workers |-> IF w = "cloud1" THEN "stopped"
                               ELSE IF w = "check1" THEN "start" ELSE "unused"]
    /\ event_record = [w \in Workers |-> Unset]
    /\ qi = [w \in Workers |-> IF w = "cloud1" THEN 2 ELSE 0]
    /\ gen = [w \in Workers |-> 0]
    /\ evaluated = [w \in Workers |-> <<>>]
    /\ written = [w \in Workers |-> <<>>]
    /\ done_calls = [w \in Workers |-> IF w = "cloud1" THEN 1 ELSE 0]
    /\ raised = [w \in Workers |-> "none"]
    /\ log = {<<"cloud1", "Started">>, <<"cloud1", "Stopped">>}

NextEval ==
    \/ \E w \in Workers : check_worker(w)
    \/ \E q \in Queues : PushSentinel(q)

SpecEval == InitEval /\ [][NextEval]_vars

\* Plugins that yield any Python value: a cloud whose read() yields a record,
\* an empty record or None, feeding a store; and a cloud feeding an untyped
\* check that feeds a store.
UntypedStore ==
    /\ cloud_data = {RecOther, EmptyDict, None}
    /\ Constructed([Unused EXCEPT !["cloud1"] = "cloud_worker", !["store1"] = "store_worker"],
                   [Unused EXCEPT !["cloud1"] = "cloud", !["store1"] = "store"],
                   [NoInput EXCEPT !["store1"] = "q1"],
                   [NoOutput EXCEPT !["cloud1"] = <<"q1">>])
UntypedCheck ==
    /\ cloud_data = {RecOther}
    /\ Constructed(PipelineTarget, PipelinePlugin("untyped"), PipelineInput, PipelineOutput)

InitUntyped ==
    /\ self_min_tls_version = DefaultMinTlsVersion
    /\ (UntypedStore \/ UntypedCheck)

SpecUntyped == InitUntyped /\ [][Next]_vars

\* The end-to-end topology with records that lack the com bucket.
InitPipelineNoCom ==
    /\ self_min_tls_version = DefaultMinTlsVersion
    /\ cloud_data = {RecNoCom, RecApp1, RecAtThreshold}
    /\ Constructed(PipelineTarget, PipelinePlugin("AzWebAppTLSEvent"),
                   PipelineInput, PipelineOutput)

SpecPipelineNoCom == InitPipelineNoCom /\ [][Next]_vars

\* Fan-out alone: a cloud feeding a check and a second queue, the check
\* feeding two queues.
FanOutTarget == [Unused EXCEPT !["cloud1"] = "cloud_worker", !["check1"] = "check_worker"]
FanOutPlugin == [Unused EXCEPT !["cloud1"] = "cloud", !["check1"] = "generic"]
FanOutInput == [NoInput EXCEPT !["check1"] = "q1"]

InitFanOut ==
    /\ self_min_tls_version = DefaultMinTlsVersion
    /\ cloud_data = {RecApp1, RecOther}
    /\ Constructed(FanOutTarget, FanOutPlugin, FanOutInput, FanOutput)

NextFanOut ==
    \/ \E w \in Workers : cloud_worker(w)
    \/ \E w \in Workers : check_worker(w)
    \/ \E q \in Queues : PushSentinel(q)

SpecFanOut == InitFanOut /\ [][NextFanOut]_vars

\* Fan-in: two clouds feeding the one queue a store reads.
FanInTarget ==
    [Unused EXCEPT !["cloud1"] = "cloud_worker", !["cloud2"] = "cloud_worker",
                   !["store1"] = "store_worker"]
FanInPlugin ==
    [Unused EXCEPT !["cloud1"] = "cloud", !["cloud2"] = "cloud", !["store1"] = "store"]
FanInInput == [NoInput EXCEPT !["store1"] = "q1"]
FanInOutput == [NoOutput EXCEPT !["cloud1"] = <<"q1">>, !["cloud2"] = <<"q1">>]

InitFanIn ==
    /\ self_min_tls_version = DefaultMinTlsVersion
    /\ cloud_data = {RecApp1, RecOther}
    /\ Constructed(FanInTarget, FanInPlugin, FanInInput, FanInOutput)

NextFanIn ==
    \/ \E w \in Workers : cloud_worker(w)
    \/ \E w \in Workers : store_worker(w)
    \/ \E q \in Queues : PushSentinel(q)

SpecFanIn == InitFanIn /\ [][NextFanIn]_vars

-----------------------------------------------------------------------------
(* Properties of AzWebAppTLSEvent.eval, checked where check_worker calls   *)
(* it (SpecEval draws the record and the threshold).                       *)

\* The value, in hundredths, of each value of Versions that is a number.
VersionTable ==
    {<<Chars(<<"1", ".", "0">>), 100>>, <<Chars(<<"1", ".", "1">>), 110>>,
     <<Chars(<<"1", ".", "2">>), 120>>, <<Chars(<<"1", ".", "3">>), 130>>,
     <<Chars(<<"1", ".", "1", "9">>), 119>>, <<Chars(<<"1", ".", "2", "1">>), 121>>,
     <<Chars(<<"2">>), 200>>, <<Chars(<<" ", "1", ".", "1">>), 110>>,
     <<Chars(<<"1", ".">>), 100>>, <<Float(11, 10), 110>>, <<Float(12, 10), 120>>}
IsNumeric(v) == \E p \in VersionTable : p[1] = v
Hundredths(v) == (CHOOSE p \in VersionTable : p[1] = v)[2]
ThresholdHundredths == (self_min_tls_version.num * 100) \div self_min_tls_version.den

\* Worker w wraps the TLS check and its last eval() call is over: the
\* generator returned or raised.
TlsEvalOver(w) ==
    /\ target[w] = "check_worker"
    /\ plugin[w] = "AzWebAppTLSEvent"
    /\ evaluated[w] # <<>>
    /\ pc[w] \in {"get", "done", "stop", "stopped", "crashed"}
\* The record of the last eval() call, as it was taken from the queue.
LastEvaluated(w) == evaluated[w][Len(evaluated[w])]
\* The events the last eval() call yielded.
LastEvents(w) == SubSeq(yielded[w], Len(yielded[w]) - gen[w] + 1, Len(yielded[w]))
\* The last eval() call raised.
LastEvalRaised(w) == pc[w] = "crashed" /\ raised[w] = "eval"

HasExt(rec) == "ext" \in DOMAIN rec
IsWebAppConfig(rec) == HasExt(rec) /\ Get(rec["ext"], "record_type") = Str("web_app_config")
VersionOf(rec) == Get(rec["ext"], "min_tls_version")

\* C5 (as claimed): TLS threshold boundary.  For a web_app_config record
\* whose min_tls_version is a number v, eval yields exactly one event, with
\* com.record_type 'web_app_tls_event', when v is strictly below the
\* threshold, and yields no event and raises nothing when v is at or above it.
C5_ThresholdBoundary ==
    \A w \in Workers :
        (TlsEvalOver(w) /\ IsWebAppConfig(LastEvaluated(w))
                        /\ IsNumeric(VersionOf(LastEvaluated(w)))) =>
            IF Hundredths(VersionOf(LastEvaluated(w))) < ThresholdHundredths
            THEN /\ Len(LastEvents(w)) = 1
                 /\ LastEvents(w)[1]["com"]["record_type"] = Str("web_app_tls_event")
                 /\ ~LastEvalRaised(w)
            ELSE LastEvents(w) = <<>> /\ ~LastEvalRaised(w)

\* C5 restricted to records that have a com bucket (what the code does).
C5_ThresholdBoundaryWithCom ==
    \A w \in Workers :
        (TlsEvalOver(w) /\ IsWebAppConfig(LastEvaluated(w))
                        /\ IsNumeric(VersionOf(LastEvaluated(w)))
                        /\ "com" \in DOMAIN LastEvaluated(w)) =>
            IF Hundredths(VersionOf(LastEvaluated(w))) < ThresholdHundredths
            THEN /\ Len(LastEvents(w)) = 1
                 /\ LastEvents(w)[1]["com"]["record_type"] = Str("web_app_tls_event")
                 /\ ~LastEvalRaised(w)
            ELSE LastEvents(w) = <<>> /\ ~LastEvalRaised(w)

\* A record below the threshold with a com bucket has given its one event.
C5_Witness ==
    /\ TlsEvalOver("check1")
    /\ self_min_tls_version = DefaultMinTlsVersion
    /\ IsWebAppConfig(LastEvaluated("check1"))
    /\ VersionOf(LastEvaluated("check1")) = Chars(<<"1", ".", "1">>)
    /\ Len(LastEvents("check1")) = 1

\* C6: non-applicable records are skipped without error.  For a record with
\* no ext bucket, and for a record whose ext.record_type is not
\* 'web_app_config', eval yields no event and raises nothing, whatever
\* min_tls_version is and whether or not there is a com bucket.
C6_NotApplicableSkipped ==
    \A w \in Workers :
        (TlsEvalOver(w) /\ ~IsWebAppConfig(LastEvaluated(w))) =>
            /\ LastEvents(w) = <<>>
            /\ ~LastEvalRaised(w)
            /\ raised[w] # "eval"

\* A record of another type, with a version that is no number and no com
\* bucket, has been evaluated and the worker has gone on to stop.
C6_Witness ==
    /\ TlsEvalOver("check1")
    /\ pc["check1"] = "stopped"
    /\ HasExt(LastEvaluated("check1"))
    /\ "com" \notin DOMAIN LastEvaluated("check1")
    /\ Get(LastEvaluated("check1")["ext"], "record_type") = Str("storage_account_config")
    /\ VersionOf(LastEvaluated("check1")) = Chars(<<"a", "b", "c">>)

\* C7: merge semantics.  When eval yields an event, the event's ext bucket
\* has exactly the keys of the source ext bucket, each with the source's
\* value except record_type, which is 'web_app_tls_event'; and the record
\* passed to eval is afterwards what it was (its ext.record_type still
\* 'web_app_config').
C7_MergeSemantics ==
    \A w \in Workers :
        (target[w] = "check_worker" /\ plugin[w] = "AzWebAppTLSEvent"
            /\ pc[w] \in {"put", "eval", "get"} /\ evaluated[w] # <<>> /\ gen[w] > 0) =>
            LET src == LastEvaluated(w)["ext"]
                ev == LastEvents(w)[1]["ext"]
            IN  /\ DOMAIN ev = DOMAIN src
                /\ \A k \in DOMAIN src \ {"record_type"} : ev[k] = src[k]
                /\ ev["record_type"] = Str("web_app_tls_event")
                /\ record[w] = LastEvaluated(w)
                /\ record[w]["ext"]["record_type"] = Str("web_app_config")

\* An event has been yielded for a record whose ext bucket has a key besides
\* record_type and min_tls_version.
C7_Witness ==
    /\ pc["check1"] = "put"
    /\ plugin["check1"] = "AzWebAppTLSEvent"
    /\ gen["check1"] = 1
    /\ "name" \in DOMAIN record["check1"]["ext"]

\* The values of Versions that are no number.
NotNumeric ==
    {Chars(<<"a", "b", "c">>), Chars(<<>>), Chars(<<"1", ".", "1", ".", "1">>),
     Chars(<<".">>), None}

\* C8: ParseError on a non-numeric version.  For a web_app_config record
\* whose min_tls_version is no number, eval raises and yields no event.
C8_ParseError ==
    \A w \in Workers :
        (TlsEvalOver(w) /\ IsWebAppConfig(LastEvaluated(w))
                        /\ VersionOf(LastEvaluated(w)) \in NotNumeric) =>
            LastEvalRaised(w) /\ LastEvents(w) = <<>>

\* eval has raised on a web_app_config record with version 'abc'.
C8_Witness ==
    /\ TlsEvalOver("check1")
    /\ IsWebAppConfig(LastEvaluated("check1"))
    /\ VersionOf(LastEvaluated("check1")) = Chars(<<"a", "b", "c">>)
    /\ pc["check1"] = "crashed"

-----------------------------------------------------------------------------
(* Properties of the worker functions.                                     *)

Producers == {w \in Workers : target[w] \in {"cloud_worker", "check_worker"}}
Readers == {w \in Workers : target[w] \in {"store_worker", "check_worker"}}
Active == {w \in Workers : target[w] # "unused"}

\* s is a prefix of t.
IsPrefix(s, t) == Len(s) <= Len(t) /\ \A i \in 1..Len(s) : s[i] = t[i]

\* The place of the first Sentinel among the entries of q, 0 when none.
FirstSentinel(q) ==
    IF \E i \in 1..Len(queue[q]) : queue[q][i].item = None
    THEN CHOOSE i \in 1..Len(queue[q]) :
            /\ queue[q][i].item = None
            /\ \A j \in 1..(i - 1) : queue[q][j].item # None
    ELSE 0
\* The items put on q before its first Sentinel (all items when there is none).
BeforeSentinel(q) ==
    Items(SubSeq(queue[q], 1, IF FirstSentinel(q) = 0 THEN Len(queue[q])
                               ELSE FirstSentinel(q) - 1))
\* Reader w has taken a Sentinel from its input queue.
SentinelRead(w) ==
    \E i \in 1..nread[input_queue[w]] : queue[input_queue[w]][i].item = None

\* What a worker holds: its position, locals and history.
WorkerState(w) ==
    <<pc[w], record[w], event_record[w], qi[w], gen[w], yielded[w], evaluated[w],
      written[w], done_calls[w], raised[w]>>

\* C1: fan-out replication.  When a cloud_worker or check_worker has
\* terminated, normally or by an exception, the sequence of items it has put
\* on each of its output queues is the sequence its plugin yielded, in yield
\* order: no queue misses, duplicates or reorders an item.
C1_FanOutReplication ==
    \A w \in Producers :
        Terminated(w) =>
            \A i \in 1..Len(output_queues[w]) :
                PutBy(w, output_queues[w][i]) = yielded[w]

\* Both a cloud_worker and a check_worker with two output queues have
\* terminated after two items each, the check by an exception of eval.
C1_Witness ==
    /\ Len(output_queues["cloud1"]) = 2 /\ Len(output_queues["check1"]) = 2
    /\ pc["cloud1"] = "stopped" /\ Len(yielded["cloud1"]) = 2
    /\ pc["check1"] = "crashed" /\ raised["check1"] = "eval"
    /\ Len(yielded["check1"]) >= 2

\* C2: Sentinel termination.  A store_worker or check_worker calls done() at
\* most once, and only on reading a Sentinel; the Sentinel it reads is the
\* first one of its input queue and done() is the next thing it does; after
\* it, the worker takes nothing more from the queue and calls no write(),
\* eval() or second done(), whatever follows the Sentinel in the queue.
C2_SentinelTermination ==
    [][\A w \in Readers :
          /\ done_calls'[w] <= 1
          /\ (done_calls'[w] = 1 => SentinelRead(w)')
          /\ SentinelRead(w)' =>
                /\ nread'[input_queue[w]] = FirstSentinel(input_queue[w])'
                /\ pc'[w] \in {"done", "stop", "stopped", "crashed"}
                /\ (pc'[w] = "done") = (done_calls'[w] = 0)
          /\ SentinelRead(w) =>
                /\ nread'[input_queue[w]] = nread[input_queue[w]]
                /\ written'[w] = written[w]
                /\ evaluated'[w] = evaluated[w]
                /\ yielded'[w] = yielded[w]
                /\ \A q \in Queues : PutBy(w, q)' = PutBy(w, q)]_vars

\* A store_worker has stopped on the first Sentinel and left a record and a
\* second Sentinel behind it in the queue.
C2_Witness ==
    /\ target["store1"] = "store_worker"
    /\ pc["store1"] = "stopped"
    /\ done_calls["store1"] = 1
    /\ \E i, j \in 1..Len(Unread(input_queue["store1"])) :
          /\ Unread(input_queue["store1"])[i].item = None
          /\ Unread(input_queue["store1"])[j].item # None

\* C3: order preservation.  For a queue with a single writer and a
\* store_worker as its reader, the records passed to write() are, in order
\* and once each, the records the writer enqueued before the first Sentinel:
\* a prefix of them at any time, and all of them once the store_worker has
\* read the Sentinel.
C3_OrderPreservation ==
    \A w \in Workers :
        (target[w] = "store_worker" /\ Cardinality(Writers(input_queue[w])) = 1) =>
            /\ IsPrefix(written[w], BeforeSentinel(input_queue[w]))
            /\ SentinelRead(w) => written[w] = BeforeSentinel(input_queue[w])

\* A store_worker has read two different records and then the Sentinel, and
\* a record enqueued after the Sentinel is still in the queue.
C3_Witness ==
    /\ target["store1"] = "store_worker"
    /\ Cardinality(Writers(input_queue["store1"])) = 1
    /\ SentinelRead("store1")
    /\ Len(written["store1"]) = 2
    /\ written["store1"][1] # written["store1"][2]
    /\ Unread(input_queue["store1"]) # <<>>

\* C9: a plugin exception is fatal for its worker only.  When read(), eval()
\* or write() raises, the worker is terminated by that step, which leaves
\* every queue and every other worker as they were; the worker has not called
\* done() and has emitted no stop event, and it never does anything again.
C9_ExceptionFatalForWorkerOnly ==
    [][\A w \in Active :
          /\ (raised[w] = "none" /\ raised'[w] \in {"read", "eval", "write"}) =>
                /\ pc'[w] = "crashed"
                /\ queue' = queue /\ nread' = nread /\ log' = log
                /\ \A v \in Workers \ {w} : WorkerState(v)' = WorkerState(v)
          /\ raised'[w] \in {"read", "eval", "write"} =>
                /\ pc'[w] = "crashed"
                /\ done_calls'[w] = 0
                /\ <<w, "Stopped">> \notin log'
          /\ raised[w] \in {"read", "eval", "write"} =>
                /\ WorkerState(w)' = WorkerState(w)
                /\ \A q \in Queues : PutBy(w, q)' = PutBy(w, q)
                /\ (w \in Readers => nread'[input_queue[w]] = nread[input_queue[w]])]_vars

\* eval() has raised in the check_worker with a record still unread in its
\* input queue, and the cloud_worker and the store_worker have gone on to stop.
C9_Witness ==
    /\ raised["check1"] = "eval" /\ pc["check1"] = "crashed"
    /\ Unread(input_queue["check1"]) # <<>>
    /\ pc["cloud1"] = "stopped"
    /\ pc["store1"] = "stopped"

\* C10: cleanup failure.  When done() raises, in any of the three workers,
\* the worker is terminated by that step without a stop event, then or
\* later, and done() has been called once and is not called again.
C10_CleanupFailure ==
    [][\A w \in Active :
          /\ raised'[w] = "done" =>
                /\ pc'[w] = "crashed"
                /\ done_calls'[w] = 1
                /\ <<w, "Stopped">> \notin log'
          /\ raised[w] = "done" => WorkerState(w)' = WorkerState(w)]_vars

\* done() has raised in the cloud_worker, the check_worker and the
\* store_worker.
C10_Witness ==
    /\ raised["cloud1"] = "done" /\ raised["check1"] = "done" /\ raised["store1"] = "done"
    /\ pc["cloud1"] = "crashed" /\ pc["check1"] = "crashed" /\ pc["store1"] = "crashed"

-----------------------------------------------------------------------------
(* The end-to-end pipeline (SpecPipeline).                                 *)

\* A web_app_config record whose min_tls_version is a number strictly below
\* the threshold.
BelowThreshold(rec) ==
    /\ IsWebAppConfig(rec)
    /\ IsNumeric(VersionOf(rec))
    /\ Hundredths(VersionOf(rec)) < ThresholdHundredths
\* A record on which eval raises: a web_app_config record whose version is
\* no number, or is below the threshold while the record has no com bucket.
EvalRaisesOn(rec) ==
    /\ IsWebAppConfig(rec)
    /\ \/ ~IsNumeric(VersionOf(rec))
       \/ BelowThreshold(rec) /\ "com" \notin DOMAIN rec
\* The records of seq before the first one on which eval raises.
RECURSIVE UntilEvalRaises(_)
UntilEvalRaises(seq) ==
    IF seq = <<>> \/ EvalRaisesOn(Head(seq)) THEN <<>>
    ELSE <<Head(seq)>> \o UntilEvalRaises(Tail(seq))
\* com.reference of each record of seq.
References(seq) == [i \in 1..Len(seq) |-> Get(seq[i]["com"], "reference")]
IsTlsEvent(rec) ==
    /\ DOMAIN rec = {"com", "ext"}
    /\ Get(rec["com"], "record_type") = Str("web_app_tls_event")
    /\ Get(rec["ext"], "record_type") = Str("web_app_tls_event")

\* The scenario: a web app with version '1.0' and reference 'app1', then a
\* record of type 'other', have given the store exactly one event, for 'app1'.
ScenarioOutcome ==
    (yielded["cloud1"] = <<RecApp1, RecOther>> /\ SentinelRead("store1")) =>
        /\ Len(written["store1"]) = 1
        /\ IsTlsEvent(written["store1"][1])
        /\ written["store1"][1]["com"]["reference"] = Str("app1")
        /\ written["store1"][1]["com"]["description"]["format"]
              = "{} web app {} has insecure minimum TLS version."

\* C4 (as claimed): end-to-end pipeline.  With cloud -> queue -> TLS check
\* (threshold 1.2) -> queue -> store and one Sentinel pushed into each queue
\* after its writer has terminated, the store's write() receives exactly one
\* event per produced web_app_config record whose version is strictly below
\* the threshold, in the order the records were produced, and nothing else.
C4_EndToEnd ==
    /\ SentinelRead("store1") =>
          /\ \A i \in 1..Len(written["store1"]) : IsTlsEvent(written["store1"][i])
          /\ References(written["store1"])
                = References(SelectSeq(yielded["cloud1"], BelowThreshold))
    /\ ScenarioOutcome

\* C4 (amended): the store's write() receives one event per produced
\* below-threshold web_app_config record among the records produced before
\* the first one on which eval raises, in production order, and nothing else:
\* a prefix of these events at any time, all of them once the store has read
\* its Sentinel.
C4_EndToEndUntilEvalRaises ==
    LET expected == References(SelectSeq(UntilEvalRaises(yielded["cloud1"]), BelowThreshold))
    IN  /\ \A i \in 1..Len(written["store1"]) : IsTlsEvent(written["store1"][i])
        /\ IsPrefix(References(written["store1"]), expected)
        /\ SentinelRead("store1") => References(written["store1"]) = expected
        /\ ScenarioOutcome

\* The scenario has run to the end: both records produced, one event written,
\* all three workers stopped.
C4_Witness ==
    /\ yielded["cloud1"] = <<RecApp1, RecOther>>
    /\ Len(written["store1"]) = 1
    /\ pc["cloud1"] = "stopped" /\ pc["check1"] = "stopped" /\ pc["store1"] = "stopped"

-----------------------------------------------------------------------------
(* Completion of the worker functions.                                     *)

\* Worker w has put every item its plugin yielded on every output queue.
AllPut(w) ==
    \A i \in 1..Len(output_queues[w]) : PutBy(w, output_queues[w][i]) = yielded[w]

\* C11: producer completion.  A cloud_worker calls done() at most once, and
\* calls it from the statement after the loop over read(), which it reaches
\* only by read() being exhausted, every yielded record being by then on
\* every output queue; when done() returns, the stop event is the next and
\* last thing the worker does; from the call of done() on, read() yields
\* nothing more and the worker puts nothing more.
C11_ProducerCompletion ==
    [][\A w \in Workers : target[w] = "cloud_worker" =>
          /\ done_calls'[w] <= 1
          /\ (pc[w] # "done" /\ pc'[w] = "done") =>
                pc[w] = "read" /\ yielded'[w] = yielded[w] /\ AllPut(w)
          /\ done_calls'[w] # done_calls[w] =>
                /\ pc[w] = "done" /\ AllPut(w)
                /\ pc'[w] \in {"stop", "crashed"}
                /\ (pc'[w] = "crashed") = (raised'[w] = "done")
          /\ (pc[w] = "stop" /\ pc'[w] # "stop") =>
                pc'[w] = "stopped" /\ <<w, "Stopped">> \in log'
          /\ pc[w] = "stopped" => pc'[w] = "stopped"
          /\ pc'[w] \in {"stop", "stopped"} => done_calls'[w] = 1 /\ AllPut(w)'
          /\ done_calls[w] = 1 =>
                /\ yielded'[w] = yielded[w]
                /\ \A q \in Queues : PutBy(w, q)' = PutBy(w, q)]_vars

\* A cloud_worker with two output queues has yielded two records, called
\* done() and stopped.
C11_Witness ==
    /\ target["cloud1"] = "cloud_worker"
    /\ Len(output_queues["cloud1"]) = 2
    /\ Len(yielded["cloud1"]) = 2
    /\ done_calls["cloud1"] = 1
    /\ pc["cloud1"] = "stopped"
    /\ <<"cloud1", "Stopped">> \in log

\* C12: the Sentinel is consumed, not forwarded.  The step by which a
\* check_worker takes the Sentinel from its input queue puts nothing on any
\* queue: every queue holds after the step the entries it held before it;
\* and from then on the worker puts nothing, so that no output queue ever
\* gets from the worker an item for the Sentinel it has read.
C12_SentinelNotForwarded ==
    [][\A w \in Workers : target[w] = "check_worker" =>
          /\ (~SentinelRead(w) /\ SentinelRead(w)') =>
                /\ queue' = queue
                /\ pc'[w] = "done"
                /\ AllPut(w)
          /\ SentinelRead(w) =>
                /\ \A q \in Queues : PutBy(w, q)' = PutBy(w, q)
                /\ \A i \in 1..Len(output_queues[w]) :
                      PutBy(w, output_queues[w][i]) = yielded[w]]_vars

\* A check_worker with two output queues has put events on them, read the
\* Sentinel and stopped.
C12_Witness ==
    /\ target["check1"] = "check_worker"
    /\ Len(output_queues["check1"]) = 2
    /\ yielded["check1"] # <<>>
    /\ SentinelRead("check1")
    /\ pc["check1"] = "stopped"

-----------------------------------------------------------------------------
(* The Sentinel and the items of the plugins (SpecUntyped).                *)

\* The entries reader w has taken from its input queue.
Taken(w) == SubSeq(queue[input_queue[w]], 1, nread[input_queue[w]])
\* The items reader w has passed, or is about to pass, to its plugin as records.
Processed(w) ==
    IF target[w] = "check_worker" THEN evaluated[w]
    ELSE written[w] \o (IF pc[w] = "write" THEN <<record[w]>> ELSE <<>>)
\* Reader w has left its read loop as on end-of-stream.
EndOfStream(w) == pc[w] \in {"done", "stop", "stopped"} \/ done_calls[w] > 0

\* C13 (as claimed): the Sentinel is never confusable with a record.  Every
\* item a cloud_worker or check_worker has put on a queue, whatever its
\* plugin yielded, is passed by the reader of the queue to write() or eval()
\* as a record, and a reader leaves its loop as on end-of-stream only on an
\* item the orchestrator has put.
C13_SentinelNeverConfused ==
    \A w \in Readers :
        /\ Items(SelectSeq(Taken(w), LAMBDA e : e.by # Orchestrator)) = Processed(w)
        /\ EndOfStream(w) =>
              Taken(w) # <<>> /\ Taken(w)[Len(Taken(w))].by = Orchestrator

\* C13 (amended): every item other than None, the empty record included, is
\* passed by the reader of the queue to write() or eval() as a record, and a
\* reader leaves its loop as on end-of-stream only on a None, whoever has
\* put it: the orchestrator, or the upstream worker whose plugin yielded it.
C13_OnlyNoneEndsStream ==
    \A w \in Readers :
        /\ Items(SelectSeq(Taken(w), LAMBDA e : e.item # None)) = Processed(w)
        /\ EndOfStream(w) =>
              Taken(w) # <<>> /\ Taken(w)[Len(Taken(w))].item = None

\* A store has written an empty record and then stopped on a None its
\* upstream worker has put, with more behind it in the queue.
C13_Witness ==
    /\ pc["store1"] = "stopped"
    /\ \E i \in 1..Len(written["store1"]) : written["store1"][i] = EmptyDict
    /\ Taken("store1")[Len(Taken("store1"))].by # Orchestrator
    /\ Unread(input_queue["store1"]) # <<>>

-----------------------------------------------------------------------------
(* Several writers of one queue (SpecFanIn).                               *)

\* The items reader w has taken from its input queue that worker p has put.
TakenFrom(w, p) == Items(SelectSeq(Taken(w), LAMBDA e : e.by = p))

\* C14: multi-producer fan-in.  For a reader whose input queue has two or
\* more cloud_workers as writers and gets one Sentinel from the orchestrator
\* once all of them have terminated: the records the reader has taken from
\* one producer are at any time a prefix of what that producer yielded; when
\* the reader has taken the Sentinel, every producer has terminated, the
\* reader has taken and passed to its plugin every record of every producer,
\* nothing is left in the queue, and the Sentinel is the orchestrator's one;
\* done() is called at most once, and once when the reader has stopped.
C14_FanIn ==
    \A w \in Readers :
        Cardinality(Writers(input_queue[w])) >= 2 =>
            /\ done_calls[w] <= 1
            /\ pc[w] = "stopped" => done_calls[w] = 1
            /\ \A p \in Writers(input_queue[w]) : IsPrefix(TakenFrom(w, p), yielded[p])
            /\ (SentinelRead(w) \/ EndOfStream(w)) =>
                  /\ \A p \in Writers(input_queue[w]) :
                        Terminated(p) /\ TakenFrom(w, p) = yielded[p]
                  /\ Processed(w) = Items(SelectSeq(Taken(w), LAMBDA e : e.by # Orchestrator))
                  /\ Unread(input_queue[w]) = <<>>
                  /\ Taken(w)[Len(Taken(w))].by = Orchestrator
                  /\ Sentinels(input_queue[w]) = 1

\* The store has taken two records of each of two producers, interleaved,
\* then the Sentinel, and has stopped.
C14_Witness ==
    /\ Writers(input_queue["store1"]) = {"cloud1", "cloud2"}
    /\ Len(yielded["cloud1"]) = 2 /\ Len(yielded["cloud2"]) = 2
    /\ Len(Taken("store1")) = 5
    /\ Taken("store1")[1].by = "cloud1" /\ Taken("store1")[2].by = "cloud2"
    /\ Taken("store1")[3].by = "cloud1" /\ Taken("store1")[4].by = "cloud2"
    /\ yielded["cloud1"][1] # yielded["cloud1"][2]
    /\ pc["store1"] = "stopped" /\ done_calls["store1"] = 1

-----------------------------------------------------------------------------
(* Termination (SpecFair).                                                 *)

\* Worker w has returned from its function: done() called once, the stop
\* event emitted.
Completed(w) ==
    /\ pc[w] = "stopped"
    /\ done_calls[w] = 1
    /\ raised[w] = "none"
    /\ <<w, "Stopped">> \in log

\* C15: pipeline termination.  With finite read() and eval() sequences and
\* one Sentinel pushed into each queue after all its writers have
\* terminated, under fair scheduling either some plugin method raises or
\* every worker, cloud_worker, check_worker and store_worker, eventually has
\* called done() once, emitted its stop event and terminated, for good.
C15_PipelineTermination ==
    \/ <>(\E w \in Workers : raised[w] # "none")
    \/ <>[](\A w \in Active : Completed(w))

\* No plugin method has raised and the cloud_worker, the check_worker and
\* the store_worker have terminated, records and events having gone through.
C15_Witness ==
    /\ \A w \in {"cloud1", "check1", "store1"} : Completed(w)
    /\ Len(yielded["cloud1"]) = 2
    /\ written["store1"] # <<>>

-----------------------------------------------------------------------------
(* A reader without a Sentinel.                                            *)

\* C16: no termination without a Sentinel.  As long as the input queue of a
\* store_worker or check_worker has received no Sentinel, the worker has not
\* called done(), has emitted no stop event and has not returned; only an
\* exception of write() or eval() ends it; and when it has taken everything
\* that was enqueued it is blocked in get(): no step changes its state while
\* the queue stays empty.
C16_NoTerminationWithoutSentinel ==
    [][\A w \in Readers :
          /\ (FirstSentinel(input_queue[w])' = 0) =>
                /\ done_calls'[w] = 0
                /\ pc'[w] \notin {"done", "stop", "stopped"}
                /\ <<w, "Stopped">> \notin log'
                /\ (pc'[w] = "crashed" => raised'[w] \in {"write", "eval"})
          /\ (pc[w] = "get" /\ Unread(input_queue[w]) = <<>>
                            /\ Unread(input_queue[w])' = <<>>) =>
                /\ WorkerState(w)' = WorkerState(w)
                /\ nread'[input_queue[w]] = nread[input_queue[w]]]_vars

\* The cloud_worker has stopped after two records, the check_worker and the
\* store_worker have processed everything enqueued for them, no Sentinel has
\* been pushed, and both are in get().
C16_Witness ==
    /\ pc["cloud1"] = "stopped" /\ Len(yielded["cloud1"]) = 2
    /\ FirstSentinel("q1") = 0 /\ FirstSentinel("q3") = 0
    /\ pc["check1"] = "get" /\ Unread("q1") = <<>> /\ Len(evaluated["check1"]) = 2
    /\ pc["store1"] = "get" /\ Unread("q3") = <<>> /\ written["store1"] # <<>>
    /\ done_calls["check1"] = 0 /\ done_calls["store1"] = 0

-----------------------------------------------------------------------------
(* The calls a worker makes on its plugin.                                 *)

\* The method of worker w's plugin that is in progress: a generator of
\* read() or eval() from its first resumption until it returns or raises,
\* the puts of what it yielded included; write() and done() while called.
InProgress(w) ==
    IF pc[w] = "write" THEN {"write"}
    ELSE IF pc[w] = "done" THEN {"done"}
    ELSE IF pc[w] \in {"eval", "put"} /\ target[w] = "check_worker" THEN {"eval"}
    ELSE IF pc[w] \in {"read", "put"} /\ target[w] = "cloud_worker" THEN {"read"}
    ELSE {}

\* C17: no concurrent or post-cleanup plugin calls.  A worker calls done()
\* only when no read() or eval() sequence is being drained and no write() is
\* in progress; a call of eval() or write() starts only when nothing else is
\* in progress and done() has not been called; and once done() has been
\* called no read(), eval() or write() is in progress or started again,
\* whatever is left in the input queue.
C17_NoConcurrentOrPostCleanupCalls ==
    [][\A w \in Active :
          /\ done_calls'[w] # done_calls[w] =>
                /\ InProgress(w) = {"done"}
                /\ evaluated'[w] = evaluated[w] /\ written'[w] = written[w]
                /\ yielded'[w] = yielded[w]
          /\ ("done" \in InProgress(w)' /\ "done" \notin InProgress(w)) =>
                InProgress(w) \in {{}, {"read"}} /\ (w \in Readers => pc[w] = "get")
          /\ (evaluated'[w] # evaluated[w] \/ "write" \in InProgress(w)' \ InProgress(w)) =>
                /\ InProgress(w) = {}
                /\ done_calls'[w] = 0
          /\ done_calls[w] >= 1 =>
                /\ InProgress(w)' = {}
                /\ evaluated'[w] = evaluated[w] /\ written'[w] = written[w]
                /\ yielded'[w] = yielded[w]
                /\ done_calls'[w] = done_calls[w]]_vars

\* A check_worker has evaluated a record, read a Sentinel, called done() and
\* stopped, with a record behind the Sentinel left in its input queue.
C17_Witness ==
    /\ target["check1"] = "check_worker"
    /\ pc["check1"] = "stopped" /\ done_calls["check1"] = 1
    /\ evaluated["check1"] # <<>> /\ yielded["check1"] # <<>>
    /\ \E i \in 1..Len(Unread(input_queue["check1"])) :
          Unread(input_queue["check1"])[i].item # None

-----------------------------------------------------------------------------
(* The order of the puts.                                                  *)

\* The number of items worker w has put on the i-th of its output queues.
PutCount(w, i) == Len(PutBy(w, output_queues[w][i]))

\* C18: fan-out push order.  A cloud_worker or check_worker puts each item
\* on its output queues in the configured order and finishes the puts of one
\* item before the next item is yielded: after every step, for i < j the
\* worker has put on the i-th queue at least as many items as on the j-th
\* and at most one more, what it has put on the j-th is a prefix of what it
\* has put on the i-th, and that a prefix of what the plugin yielded.  A
\* check_worker takes the next item from its input queue only when every
\* event of the record before is on every output queue.
C18_FanOutPushOrder ==
    [][\A w \in Producers :
          /\ \A i, j \in 1..Len(output_queues[w]) :
                i < j =>
                   /\ PutCount(w, j)' <= PutCount(w, i)'
                   /\ PutCount(w, i)' <= PutCount(w, j)' + 1
                   /\ IsPrefix(PutBy(w, output_queues[w][j])', PutBy(w, output_queues[w][i])')
          /\ \A i \in 1..Len(output_queues[w]) :
                IsPrefix(PutBy(w, output_queues[w][i])', yielded'[w])
          /\ yielded'[w] # yielded[w] => AllPut(w)
          /\ (target[w] = "check_worker"
                /\ nread'[input_queue[w]] # nread[input_queue[w]]) =>
                AllPut(w) /\ pc[w] = "get"]_vars

\* Both the cloud_worker and the check_worker are between the two puts of
\* their second item.
C18_Witness ==
    /\ Len(output_queues["cloud1"]) = 2 /\ Len(output_queues["check1"]) = 2
    /\ PutCount("cloud1", 1) = 2 /\ PutCount("cloud1", 2) = 1
    /\ PutCount("check1", 1) = 2 /\ PutCount("check1", 2) = 1
    /\ pc["cloud1"] = "put" /\ pc["check1"] = "put"

-----------------------------------------------------------------------------
(* An applicable record without a com bucket (SpecPipelineNoCom).          *)

\* C19: an applicable record without a com bucket crashes the check_worker.
\* For a web_app_config record whose min_tls_version is strictly below the
\* threshold and which has no com bucket, eval raises without yielding an
\* event; the check_worker is then terminated, without a call of done() and
\* without a stop event, has put nothing on its output queues for the
\* record, and takes nothing more from its input queue.
C19_NoComCrashesCheckWorker ==
    \A w \in Workers :
        (target[w] = "check_worker" /\ plugin[w] = "AzWebAppTLSEvent"
            /\ evaluated[w] # <<>>
            /\ BelowThreshold(LastEvaluated(w)) /\ "com" \notin DOMAIN LastEvaluated(w)) =>
            /\ pc[w] \in {"eval", "crashed"}
            /\ gen[w] = 0
            /\ LastEvents(w) = <<>>
            /\ AllPut(w)
            /\ nread[input_queue[w]] = Len(evaluated[w])
            /\ done_calls[w] = 0
            /\ <<w, "Stopped">> \notin log
            /\ pc[w] = "crashed" => raised[w] = "eval"

\* The check_worker has crashed on a first record without com bucket; the
\* record behind it is still in its input queue after the cloud_worker and
\* the store_worker have stopped, and the store has received nothing.
C19_Witness ==
    /\ evaluated["check1"] = <<RecNoCom>>
    /\ pc["check1"] = "crashed" /\ raised["check1"] = "eval"
    /\ done_calls["check1"] = 0
    /\ Unread(input_queue["check1"]) # <<>>
    /\ Head(Unread(input_queue["check1"])).item = RecApp1
    /\ PutBy("check1", "q2") = <<>>
    /\ pc["cloud1"] = "stopped" /\ pc["store1"] = "stopped"
    /\ written["store1"] = <<>>

====
